---------------------------- MODULE Spec2Model ----------------------------
(***************************************************************************)
(* Model of the ticket inventory and order lifecycle engine of the Event   *)
(* Ticketing System: routes/tickets.py (create_order, complete_order,      *)
(* cancel_order, join_queue), routes/admin.py (update_ticket_inventory,    *)
(* approve_order, reject_order, fulfill_queue, get_stats, reset_data,      *)
(* complete_reset) and the seeding block of app.py.                        *)
(*                                                                         *)
(* Every request handler is one atomic action: the database is the state,  *)
(* the committed rows are what the next request sees, and a handler that   *)
(* returns without db.session.commit() leaves the rows as they were (the   *)
(* request-scoped session is discarded).  A handler is an operator from    *)
(* the rows and the request to its outcome: the HTTP status code, the      *)
(* error it reports and the rows it commits.  An amount of money (a price, *)
(* a total) is a whole number of thousandths of the currency unit, so that *)
(* rounding to two decimals is not the identity.                           *)
(* Timestamps (datetime.utcnow) are a logical clock that advances with     *)
(* every row inserted since the last reset; completed_at only records      *)
(* whether the stamp was set.  MaxRows bounds the Order and Queue rows     *)
(* inserted since the last reset.                                          *)
(*                                                                         *)
(* The server handles requests in threads, each with its own database      *)
(* session.  SpecApprove and SpecCreate split approve_order and            *)
(* create_order at their commits: sessions holds, for every request in     *)
(* flight, the rows its session has loaded and what it is about to write.  *)
(* A session works on the values it loaded and its commit writes the       *)
(* columns it changed; the handlers take no lock and never retry.          *)
(***************************************************************************)
EXTENDS Integers, Sequences, FiniteSets, TLC

VARIABLES tickets, orders, queue, sessions

vars == <<tickets, orders, queue, sessions>>

(***************************************************************************)
(* Bounds of the exploration.                                              *)
(***************************************************************************)
MaxRows == 2
MaxAvail == 1
MaxThreads == 2

(***************************************************************************)
(* Program constants.                                                      *)
(***************************************************************************)
VIP == 1
REGULAR == 2
DefaultVipPrice == 100000
DefaultRegularPrice == 85000
DefaultVipQuantity == 50
DefaultRegularQuantity == 100
ResetRegularQuantity == 30

TicketIds == {VIP, REGULAR}

(***************************************************************************)
(* Inputs of the requests.                                                 *)
(***************************************************************************)
Users == {1, 2}
UnknownTicketId == REGULAR + 1
RequestTicketIds == TicketIds \cup {UnknownTicketId}
Item(t, q) == [ticket_id |-> t, quantity |-> q]
\* The order requests: one class, both classes, one class twice (to be added
\* up), a line of quantity 0 beside a real one, nothing but a line of
\* quantity 0, and a ticket that does not exist.
ItemLists ==
    {<<Item(VIP, 1)>>,
     <<Item(VIP, 1), Item(REGULAR, 1)>>,
     <<Item(VIP, 1), Item(VIP, 1)>>,
     <<Item(VIP, 0), Item(REGULAR, 1)>>,
     <<Item(REGULAR, 0)>>,
     <<Item(UnknownTicketId, 1)>>}
\* The prices of a restock: 120.004 and -20.
PriceInputs == {120004, -20000}
AddInputs == {-1, 1}
SetInputs == -1..MaxAvail
WaitQuantities == {2}
\* The add_quantity and set_quantity keys of a restock: one of them, or a
\* failing one beside a passing one.
QuantityInputs ==
    {<<<<a>>, <<>>>> : a \in AddInputs} \cup {<<<<>>, <<v>>>> : v \in SetInputs}
        \cup {<<<<-1>>, <<MaxAvail>>>>, <<<<1>>, <<-1>>>>}
\* The administrator writes a note with every decision.
NotesInputs == {<<"admin">>}
Opt(S) == {<<>>} \cup {<<v>> : v \in S}

Statuses == {"pending", "approved", "completed", "rejected", "cancelled"}

(***************************************************************************)
(* datetime.utcnow(): rows are stamped in the order they are inserted.     *)
(***************************************************************************)
utcnow == Len(orders) + Len(queue) + 1

\* What a handler returns: the response and the rows after it.
Outcome(code, error, tk, os, q) ==
    [code |-> code, error |-> error, tickets |-> tk, orders |-> os, queue |-> q]

\* A return before any commit.
Fail(code, error) == Outcome(code, error, tickets, orders, queue)

\* The request threads and a thread that serves no request.
Threads == 1..MaxThreads
Idle == [op |-> "idle"]

\* The rows of the outcome become the rows of the database, and the request
\* is over.
Commit(r) ==
    /\ tickets' = r.tickets
    /\ orders' = r.orders
    /\ queue' = r.queue
    /\ sessions' = sessions

\* The exploration stops inserting rows at MaxRows.
WithinRows(r) == Len(r.orders) + Len(r.queue) <= MaxRows

(***************************************************************************)
(* The two seeded Ticket rows (app.py; reset_data re-creates them with a   *)
(* different Regular quantity).                                            *)
(***************************************************************************)
DefaultTickets(regular_quantity) ==
    [t \in TicketIds |->
        IF t = VIP
        THEN [price |-> DefaultVipPrice, available_quantity |-> DefaultVipQuantity,
              sold_quantity |-> 0]
        ELSE [price |-> DefaultRegularPrice, available_quantity |-> regular_quantity,
              sold_quantity |-> 0]]

Init ==
    /\ tickets = DefaultTickets(DefaultRegularQuantity)
    /\ orders = <<>>
    /\ queue = <<>>
    /\ sessions = [th \in Threads |-> Idle]

(***************************************************************************)
(* create_order                                                            *)
(***************************************************************************)
RECURSIVE SumQuantity(_)
SumQuantity(items) ==
    IF items = <<>> THEN 0 ELSE Head(items).quantity + SumQuantity(Tail(items))

\* A guard that only looks for an order still awaiting review.
ActiveStatuses_PendingOnly == {"pending"}

ActiveStatuses == {"pending", "approved", "completed"}

\* All orders of the user in an active status, as order ids.
ActiveOrdersOf(u) ==
    {i \in 1..Len(orders) : orders[i].user_id = u /\ orders[i].status \in ActiveStatuses}

\* .order_by(created_at.desc()).first(): the most recent one.
existing_order(u) ==
    CHOOSE i \in ActiveOrdersOf(u) :
        \A j \in ActiveOrdersOf(u) : orders[j].created_at <= orders[i].created_at

AggIndex(agg, tid) == {k \in 1..Len(agg) : agg[k].ticket_id = tid}

\* An aggregation that keeps every requested line apart.
AggAdd_NoMerge(agg, tid, q) == Append(agg, [ticket_id |-> tid, quantity |-> q])

\* aggregated_items[ticket_id]['quantity'] += quantity, keeping insertion order.
AggAdd(agg, tid, q) ==
    IF AggIndex(agg, tid) = {}
    THEN Append(agg, [ticket_id |-> tid, quantity |-> q])
    ELSE [k \in 1..Len(agg) |->
            IF agg[k].ticket_id = tid
            THEN [agg[k] EXCEPT !.quantity = @ + q]
            ELSE agg[k]]

AggQuantity(agg, tid) ==
    LET k == CHOOSE k \in AggIndex(agg, tid) : TRUE IN agg[k].quantity

\* The loop over the requested items: skip quantities below 1, fail on an
\* unknown ticket, add up per ticket and fail as soon as a sum exceeds the
\* ticket's available quantity.
RECURSIVE Aggregate(_, _)
Aggregate(items, agg) ==
    IF items = <<>> THEN [error |-> "", agg |-> agg]
    ELSE LET item == Head(items) IN
        IF item.quantity < 1 THEN Aggregate(Tail(items), agg)
        ELSE IF item.ticket_id \notin TicketIds
        THEN [error |-> "ticket not found", agg |-> agg]
        ELSE LET agg2 == AggAdd(agg, item.ticket_id, item.quantity) IN
            IF AggQuantity(agg2, item.ticket_id) >
                   tickets[item.ticket_id].available_quantity
            THEN [error |-> "not enough tickets", agg |-> agg2]
            ELSE Aggregate(Tail(items), agg2)

order_items_data(agg) ==
    [k \in 1..Len(agg) |->
        [ticket_id |-> agg[k].ticket_id,
         quantity |-> agg[k].quantity,
         price_at_purchase |-> tickets[agg[k].ticket_id].price]]

\* A total that stops at the first line.
ItemsTotal_FirstLine(its) ==
    IF its = <<>> THEN 0 ELSE Head(its).price_at_purchase * Head(its).quantity

RECURSIVE ItemsTotal(_)
ItemsTotal(its) ==
    IF its = <<>> THEN 0
    ELSE Head(its).price_at_purchase * Head(its).quantity + ItemsTotal(Tail(its))

\* A create_order that takes the tickets out of stock when the order is placed.
create_order_Reserving(u, items) ==
    LET r == Aggregate(items, <<>>)
        its == order_items_data(r.agg)
        taken == [t \in TicketIds |->
                    IF AggIndex(r.agg, t) = {} THEN tickets[t]
                    ELSE [tickets[t] EXCEPT
                            !.available_quantity = @ - AggQuantity(r.agg, t),
                            !.sold_quantity = @ + AggQuantity(r.agg, t)]]
    IN
    IF ActiveOrdersOf(u) # {} THEN Fail(409, "already active")
    ELSE IF SumQuantity(items) < 1 THEN Fail(400, "at least 1 ticket required")
    ELSE IF r.error # "" THEN Fail(400, r.error)
    ELSE Outcome(201, "", taken,
            Append(orders,
                [user_id |-> u,
                 status |-> "pending",
                 order_items |-> its,
                 total_amount |-> ItemsTotal(its),
                 created_at |-> utcnow,
                 completed_at |-> FALSE,
                 admin_notes |-> <<>>]),
            queue)

\* A create_order that refuses a request holding a line of quantity below 1.
create_order_Strict(u, items) ==
    LET r == Aggregate(items, <<>>) IN
    IF ActiveOrdersOf(u) # {} THEN Fail(409, "already active")
    ELSE IF \E k \in 1..Len(items) : items[k].quantity < 1
    THEN Fail(400, "at least 1 ticket required")
    ELSE IF r.error = "ticket not found" THEN Fail(404, r.error)
    ELSE IF r.error = "not enough tickets" THEN Fail(400, r.error)
    ELSE Outcome(201, "", tickets,
            Append(orders,
                [user_id |-> u,
                 status |-> "pending",
                 order_items |-> order_items_data(r.agg),
                 total_amount |-> ItemsTotal(order_items_data(r.agg)),
                 created_at |-> utcnow,
                 completed_at |-> FALSE,
                 admin_notes |-> <<>>]),
            queue)

create_order(u, items) ==
    LET r == Aggregate(items, <<>>) IN
    IF ActiveOrdersOf(u) # {}
    THEN Fail(409, IF orders[existing_order(u)].status = "completed"
                   THEN "already completed" ELSE "already active")
    ELSE IF SumQuantity(items) < 1
    THEN Fail(400, "at least 1 ticket required")
    ELSE IF r.error = "ticket not found"
    THEN Fail(404, r.error)
    ELSE IF r.error = "not enough tickets"
    THEN Fail(400, r.error)
    ELSE IF r.agg = <<>>
    THEN Fail(400, "at least 1 ticket required")
    ELSE Outcome(201, "", tickets,
            Append(orders,
                [user_id |-> u,
                 status |-> "pending",
                 order_items |-> order_items_data(r.agg),
                 total_amount |-> ItemsTotal(order_items_data(r.agg)),
                 created_at |-> utcnow,
                 completed_at |-> FALSE,
                 admin_notes |-> <<>>]),
            queue)

(***************************************************************************)
(* Inventory movements of approve_order, complete_order and cancel_order:  *)
(* the loops over order.order_items.                                       *)
(***************************************************************************)
\* A validation loop that looks at the first line only.
FirstShort_FirstLineOnly(its) ==
    IF its # <<>> /\ tickets[its[1].ticket_id].available_quantity < its[1].quantity
    THEN 1 ELSE 0

\* A validation loop that also refuses a line asking for all that is left.
FirstShort_NonStrict(its) ==
    LET short == {k \in 1..Len(its) :
                    tickets[its[k].ticket_id].available_quantity <= its[k].quantity}
    IN IF short = {} THEN 0 ELSE CHOOSE k \in short : \A j \in short : k <= j

\* The validation loop: the first line, in order, whose quantity exceeds
\* what is available (0 if there is none).
FirstShort(its) ==
    LET short == {k \in 1..Len(its) :
                    tickets[its[k].ticket_id].available_quantity < its[k].quantity}
    IN IF short = {} THEN 0 ELSE CHOOSE k \in short : \A j \in short : k <= j

\* approve_order's decrement loop, with its floor of available at 0.
RECURSIVE ReserveApprove(_, _)
ReserveApprove(its, tk) ==
    IF its = <<>> THEN tk
    ELSE LET it == Head(its)
             a == tk[it.ticket_id].available_quantity - it.quantity
             tk2 == [tk EXCEPT ![it.ticket_id].available_quantity =
                                    IF a < 0 THEN 0 ELSE a,
                               ![it.ticket_id].sold_quantity = @ + it.quantity]
         IN ReserveApprove(Tail(its), tk2)

\* A decrement loop that forgets the sold count.
RECURSIVE ReserveComplete_NoSold(_, _)
ReserveComplete_NoSold(its, tk) ==
    IF its = <<>> THEN tk
    ELSE LET it == Head(its)
             tk2 == [tk EXCEPT ![it.ticket_id].available_quantity = @ - it.quantity]
         IN ReserveComplete_NoSold(Tail(its), tk2)

\* complete_order's decrement loop.
RECURSIVE ReserveComplete(_, _)
ReserveComplete(its, tk) ==
    IF its = <<>> THEN tk
    ELSE LET it == Head(its)
             tk2 == [tk EXCEPT ![it.ticket_id].available_quantity = @ - it.quantity,
                               ![it.ticket_id].sold_quantity = @ + it.quantity]
         IN ReserveComplete(Tail(its), tk2)

\* A refund loop that returns the tickets but leaves them counted as sold.
RECURSIVE Release_NoSold(_, _)
Release_NoSold(its, tk) ==
    IF its = <<>> THEN tk
    ELSE LET it == Head(its)
             tk2 == [tk EXCEPT ![it.ticket_id].available_quantity = @ + it.quantity]
         IN Release_NoSold(Tail(its), tk2)

\* cancel_order's refund loop, with its floor of sold at 0.
RECURSIVE Release(_, _)
Release(its, tk) ==
    IF its = <<>> THEN tk
    ELSE LET it == Head(its)
             s == tk[it.ticket_id].sold_quantity - it.quantity
             tk2 == [tk EXCEPT ![it.ticket_id].available_quantity = @ + it.quantity,
                               ![it.ticket_id].sold_quantity =
                                    IF s < 0 THEN 0 ELSE s]
         IN Release(Tail(its), tk2)

\* An approve_order that, like complete_order, only refuses when stock is short.
approve_order_NoAutoReject(id, notes) ==
    IF id \notin 1..Len(orders)
    THEN Fail(404, "order not found")
    ELSE LET order == orders[id] IN
    IF order.status # "pending"
    THEN Fail(400, "already " \o order.status)
    ELSE IF \E k \in 1..Len(order.order_items) :
                tickets[order.order_items[k].ticket_id].available_quantity
                    < order.order_items[k].quantity
    THEN Fail(400, "insufficient tickets")
    ELSE Outcome(200, "",
            [t \in TicketIds |->
                LET ks == {k \in 1..Len(order.order_items) :
                              order.order_items[k].ticket_id = t} IN
                IF ks = {} THEN tickets[t]
                ELSE LET q == order.order_items[CHOOSE k \in ks : TRUE].quantity IN
                     [tickets[t] EXCEPT !.available_quantity = @ - q,
                                        !.sold_quantity = @ + q]],
            [orders EXCEPT ![id].status = "approved",
                           ![id].completed_at = TRUE,
                           ![id].admin_notes = IF notes # <<>> THEN notes ELSE @],
            queue)

(***************************************************************************)
(* approve_order                                                           *)
(***************************************************************************)
approve_order(id, notes) ==
    IF id \notin 1..Len(orders)
    THEN Fail(404, "order not found")
    ELSE LET order == orders[id] IN
    IF order.status # "pending"
    THEN Fail(400, "already " \o order.status)
    ELSE IF FirstShort(order.order_items) # 0
    THEN Outcome(400, "insufficient tickets", tickets,
            [orders EXCEPT ![id].status = "rejected",
                           ![id].admin_notes = <<"auto-rejected: insufficient">>],
            queue)
    ELSE Outcome(200, "", ReserveApprove(order.order_items, tickets),
            [orders EXCEPT ![id].status = "approved",
                           ![id].completed_at = TRUE,
                           ![id].admin_notes = IF notes # <<>> THEN notes ELSE @],
            queue)

\* A reject_order that takes an order in any status.
reject_order_AnyStatus(id, notes) ==
    IF id \notin 1..Len(orders)
    THEN Fail(404, "order not found")
    ELSE Outcome(200, "", tickets,
            [orders EXCEPT ![id].status = "rejected",
                           ![id].admin_notes = IF notes # <<>> THEN notes ELSE @],
            queue)

\* A reject_order that hands the order's tickets back, as a cancellation does.
reject_order_Releasing(id, notes) ==
    IF id \notin 1..Len(orders)
    THEN Fail(404, "order not found")
    ELSE IF orders[id].status # "pending"
    THEN Fail(400, "already " \o orders[id].status)
    ELSE Outcome(200, "", Release(orders[id].order_items, tickets),
            [orders EXCEPT ![id].status = "rejected",
                           ![id].admin_notes = IF notes # <<>> THEN notes ELSE @],
            queue)

(***************************************************************************)
(* reject_order                                                            *)
(***************************************************************************)
reject_order(id, notes) ==
    IF id \notin 1..Len(orders)
    THEN Fail(404, "order not found")
    ELSE IF orders[id].status # "pending"
    THEN Fail(400, "already " \o orders[id].status)
    ELSE Outcome(200, "", tickets,
            [orders EXCEPT ![id].status = "rejected",
                           ![id].admin_notes = IF notes # <<>> THEN notes ELSE @],
            queue)

(***************************************************************************)
(* complete_order                                                          *)
(***************************************************************************)
complete_order(id) ==
    IF id \notin 1..Len(orders)
    THEN Fail(404, "order not found")
    ELSE LET order == orders[id] IN
    IF order.status = "completed"
    THEN Fail(400, "already completed")
    ELSE IF order.status = "cancelled"
    THEN Fail(400, "order was cancelled")
    ELSE IF FirstShort(order.order_items) # 0
    THEN Fail(400, "insufficient tickets")
    ELSE Outcome(200, "", ReserveComplete(order.order_items, tickets),
            [orders EXCEPT ![id].status = "completed",
                           ![id].completed_at = TRUE],
            queue)

\* A cancel_order that does not ask whose order it is.
cancel_order_NoOwnerCheck(id, requester) ==
    IF id \notin 1..Len(orders)
    THEN Fail(404, "order not found")
    ELSE LET order == orders[id] IN
    IF order.status \notin {"approved", "completed"}
    THEN Fail(400, "cannot cancel " \o order.status)
    ELSE Outcome(200, "", Release(order.order_items, tickets),
            [orders EXCEPT ![id].status = "cancelled",
                           ![id].admin_notes = Append(@, "user cancelled")],
            queue)

(***************************************************************************)
(* cancel_order                                                            *)
(***************************************************************************)
cancel_order(id, requester) ==
    IF id \notin 1..Len(orders)
    THEN Fail(404, "order not found")
    ELSE LET order == orders[id] IN
    IF order.user_id # requester
    THEN Fail(403, "unauthorized")
    ELSE IF order.status \notin {"approved", "completed"}
    THEN Fail(400, "cannot cancel " \o order.status)
    ELSE Outcome(200, "", Release(order.order_items, tickets),
            [orders EXCEPT ![id].status = "cancelled",
                           ![id].admin_notes = Append(@, "user cancelled")],
            queue)

\* A restock without the checks against a negative quantity.
update_ticket_inventory_NoCheck(t, price, add_quantity, set_quantity) ==
    LET t1 == IF price # <<>> THEN [tickets[t] EXCEPT !.price = price[1]]
              ELSE tickets[t]
        t2 == IF add_quantity # <<>>
              THEN [t1 EXCEPT !.available_quantity = @ + add_quantity[1]]
              ELSE t1
        t3 == IF set_quantity # <<>>
              THEN [t2 EXCEPT !.available_quantity = set_quantity[1]]
              ELSE t2
    IN Outcome(200, "", [tickets EXCEPT ![t] = t3], orders, queue)

\* A restock that keeps the new price when it refuses the quantity.
update_ticket_inventory_PriceKept(t, price, add_quantity, set_quantity) ==
    LET t1 == IF price # <<>> THEN [tickets[t] EXCEPT !.price = price[1]]
              ELSE tickets[t]
        added == IF add_quantity # <<>>
                 THEN t1.available_quantity + add_quantity[1]
                 ELSE t1.available_quantity
        t3 == [t1 EXCEPT !.available_quantity =
                 IF set_quantity # <<>> THEN set_quantity[1] ELSE added]
    IN
    IF \/ add_quantity # <<>> /\ added < 0
       \/ set_quantity # <<>> /\ set_quantity[1] < 0
    THEN Outcome(400, "negative quantity", [tickets EXCEPT ![t] = t1], orders, queue)
    ELSE Outcome(200, "", [tickets EXCEPT ![t] = t3], orders, queue)

\* A restock whose new price also reaches the lines of the orders already placed.
update_ticket_inventory_Retroactive(t, price, add_quantity, set_quantity) ==
    LET added == IF add_quantity # <<>>
                 THEN tickets[t].available_quantity + add_quantity[1]
                 ELSE tickets[t].available_quantity
        t3 == [tickets[t] EXCEPT
                 !.price = IF price # <<>> THEN price[1] ELSE @,
                 !.available_quantity =
                    IF set_quantity # <<>> THEN set_quantity[1] ELSE added]
        relined(its) ==
            [k \in 1..Len(its) |->
                IF its[k].ticket_id = t /\ price # <<>>
                THEN [its[k] EXCEPT !.price_at_purchase = price[1]]
                ELSE its[k]]
    IN
    IF add_quantity # <<>> /\ added < 0
    THEN Fail(400, "negative quantity")
    ELSE IF set_quantity # <<>> /\ set_quantity[1] < 0
    THEN Fail(400, "negative quantity")
    ELSE Outcome(200, "", [tickets EXCEPT ![t] = t3],
            [i \in 1..Len(orders) |->
                [orders[i] EXCEPT !.order_items = relined(@)]],
            queue)

(***************************************************************************)
(* update_ticket_inventory (restock).  Both Ticket rows always exist, so   *)
(* only the "update existing ticket" branch is reachable.  price,          *)
(* add_quantity and set_quantity are optional keys: <<>> is an absent key. *)
(***************************************************************************)
update_ticket_inventory(t, price, add_quantity, set_quantity) ==
    LET t1 == IF price # <<>> THEN [tickets[t] EXCEPT !.price = price[1]]
              ELSE tickets[t]
        added == IF add_quantity # <<>>
                 THEN t1.available_quantity + add_quantity[1]
                 ELSE t1.available_quantity
        t2 == [t1 EXCEPT !.available_quantity = added]
        t3 == IF set_quantity # <<>>
              THEN [t2 EXCEPT !.available_quantity = set_quantity[1]]
              ELSE t2
    IN
    IF add_quantity # <<>> /\ added < 0
    THEN Fail(400, "negative quantity")
    ELSE IF set_quantity # <<>> /\ set_quantity[1] < 0
    THEN Fail(400, "negative quantity")
    ELSE Outcome(200, "", [tickets EXCEPT ![t] = t3], orders, queue)

(***************************************************************************)
(* join_queue and fulfill_queue (the waitlist)                             *)
(***************************************************************************)
\* The Queue row of the waitlist: the columns join_queue passes and the
\* defaults of the others (a new entry is waiting and stamped when inserted).
Queue(ticket_type, requested_quantity) ==
    [ticket_type |-> ticket_type,
     requested_quantity |-> requested_quantity,
     joined_at |-> utcnow,
     status |-> "waiting"]

\* A join_queue that takes no entry while stock covers the request.
join_queue_StockChecked(ticket_type, quantity) ==
    IF ticket_type \notin TicketIds
    THEN Fail(400, "invalid ticket type")
    ELSE IF tickets[ticket_type].available_quantity >= quantity
    THEN Fail(400, "tickets available")
    ELSE Outcome(201, "", tickets, orders, Append(queue, Queue(ticket_type, quantity)))

join_queue(ticket_type, quantity) ==
    IF ticket_type \notin TicketIds
    THEN Fail(400, "invalid ticket type")
    ELSE Outcome(201, "", tickets, orders, Append(queue, Queue(ticket_type, quantity)))

fulfill_queue(qid) ==
    IF qid \notin 1..Len(queue)
    THEN Fail(404, "queue entry not found")
    ELSE Outcome(200, "", tickets, orders, [queue EXCEPT ![qid].status = "fulfilled"])

(***************************************************************************)
(* get_stats: the pending orders ranked by tier and the two class queues   *)
(* of the administrator's dashboard.  It reads the rows and writes none.   *)
(***************************************************************************)
\* Order.query.filter_by(status='pending').all()
pending_orders_query == {i \in 1..Len(orders) : orders[i].status = "pending"}

has_vip(i) == \E k \in 1..Len(orders[i].order_items) : orders[i].order_items[k].ticket_id = VIP

has_regular(i) ==
    \E k \in 1..Len(orders[i].order_items) : orders[i].order_items[k].ticket_id = REGULAR

\* list.sort(key=created_at) of a bucket of orders, as order ids: the sort is
\* stable and the query lists the rows by id.
RECURSIVE SortByCreatedAt(_)
SortByCreatedAt(ids) ==
    IF ids = {} THEN <<>>
    ELSE LET first == CHOOSE i \in ids :
                        \A j \in ids :
                            \/ orders[i].created_at < orders[j].created_at
                            \/ orders[i].created_at = orders[j].created_at /\ i <= j
         IN <<first>> \o SortByCreatedAt(ids \ {first})

vip_orders == SortByCreatedAt({i \in pending_orders_query : has_vip(i) /\ ~has_regular(i)})

mixed_orders == SortByCreatedAt({i \in pending_orders_query : has_vip(i) /\ has_regular(i)})

regular_orders == SortByCreatedAt({i \in pending_orders_query : ~has_vip(i)})

pending_orders == vip_orders \o mixed_orders \o regular_orders

\* The waiting Queue rows of a class, ordered by joined_at, as dictionaries.
RECURSIVE SortByJoinedAtRows(_)
SortByJoinedAtRows(qids) ==
    IF qids = {} THEN <<>>
    ELSE LET first == CHOOSE i \in qids :
                        \A j \in qids :
                            \/ queue[i].joined_at < queue[j].joined_at
                            \/ queue[i].joined_at = queue[j].joined_at /\ i <= j
         IN <<first>> \o SortByJoinedAtRows(qids \ {first})

queue_entries(t, priority) ==
    LET rows == SortByJoinedAtRows({i \in 1..Len(queue) :
                    queue[i].ticket_type = t /\ queue[i].status = "waiting"})
    IN [k \in 1..Len(rows) |->
            [type |-> "queue",
             id |-> rows[k],
             requested_quantity |-> queue[rows[k]].requested_quantity,
             joined_at |-> queue[rows[k]].joined_at,
             priority |-> priority]]

\* A subtotal priced at what the class costs now.
RECURSIVE LineTotal_CurrentPrice(_, _)
LineTotal_CurrentPrice(its, t) ==
    IF its = <<>> THEN 0
    ELSE (IF Head(its).ticket_id = t
          THEN Head(its).quantity * tickets[t].price ELSE 0)
            + LineTotal_CurrentPrice(Tail(its), t)

\* item.quantity * item.price_at_purchase summed over the lines of a class.
RECURSIVE LineTotal(_, _)
LineTotal(its, t) ==
    IF its = <<>> THEN 0
    ELSE (IF Head(its).ticket_id = t
          THEN Head(its).quantity * Head(its).price_at_purchase ELSE 0)
            + LineTotal(Tail(its), t)

RECURSIVE LineCount(_, _)
LineCount(its, t) ==
    IF its = <<>> THEN 0
    ELSE (IF Head(its).ticket_id = t THEN Head(its).quantity ELSE 0)
            + LineCount(Tail(its), t)

\* The loop that turns the orders of a list into the entries of a class
\* queue, leaving out an order with no ticket of the class.
RECURSIVE pending_entries(_, _, _)
pending_entries(ids, t, priority) ==
    IF ids = <<>> THEN <<>>
    ELSE LET order == orders[Head(ids)]
             entry == [type |-> "order",
                       id |-> Head(ids),
                       requested_quantity |-> LineCount(order.order_items, t),
                       joined_at |-> order.created_at,
                       order_total |-> order.total_amount,
                       item_total |-> LineTotal(order.order_items, t),
                       priority |-> priority,
                       is_mixed |-> Len(order.order_items) > 1]
         IN (IF LineCount(order.order_items, t) > 0 THEN <<entry>> ELSE <<>>)
                \o pending_entries(Tail(ids), t, priority)

\* A sort that leaves the entries as they were merged.
InsertByJoinedAt_Append(s, e) == Append(s, e)

\* list.sort(key=joined_at) of the entries: a stable sort.
RECURSIVE InsertByJoinedAt(_, _)
InsertByJoinedAt(s, e) ==
    IF s = <<>> THEN <<e>>
    ELSE IF e.joined_at < Head(s).joined_at THEN <<e>> \o s
    ELSE <<Head(s)>> \o InsertByJoinedAt(Tail(s), e)

RECURSIVE SortByJoinedAt(_)
SortByJoinedAt(s) ==
    IF s = <<>> THEN <<>>
    ELSE InsertByJoinedAt(SortByJoinedAt(SubSeq(s, 1, Len(s) - 1)), s[Len(s)])

vip_queue_entries == queue_entries(VIP, "VIP")

\* A consolidation that forgets the orders holding both classes.
vip_pending_orders_NoMixed == pending_entries(vip_orders, VIP, "VIP")

vip_pending_orders == pending_entries(vip_orders \o mixed_orders, VIP, "VIP")

\* A VIP queue that is left as merged, tier by tier.
vip_queue_Unsorted == vip_queue_entries \o vip_pending_orders

vip_queue == SortByJoinedAt(vip_queue_entries \o vip_pending_orders)

regular_queue_entries == queue_entries(REGULAR, "Regular")

regular_pending_orders == pending_entries(regular_orders \o mixed_orders, REGULAR, "Regular")

regular_queue == SortByJoinedAt(regular_queue_entries \o regular_pending_orders)

\* The orders counted as finished: Order.status.in_(['completed', 'approved']).
finished_orders == {i \in 1..Len(orders) : orders[i].status \in {"completed", "approved"}}

\* func.sum(Order.total_amount) over a set of orders.
RECURSIVE sum_total_amount(_)
sum_total_amount(ids) ==
    IF ids = {} THEN 0
    ELSE LET i == CHOOSE x \in ids : TRUE
         IN orders[i].total_amount + sum_total_amount(ids \ {i})

\* A revenue that counts the completed orders only.
total_revenue_CompletedOnly ==
    sum_total_amount({i \in 1..Len(orders) : orders[i].status = "completed"})

\* The sum over the finished orders, 0.0 when the query yields NULL (no such
\* order) or 0.
total_revenue ==
    IF finished_orders = {} \/ sum_total_amount(finished_orders) = 0 THEN 0
    ELSE sum_total_amount(finished_orders)

completed_orders == Cardinality(finished_orders)

\* round(x, 2): the nearest hundredth of the currency unit.  Halfway between
\* two hundredths the binary value of the float decides; the amounts explored
\* are never halfway, and the even hundredth stands for that case.
round(x) ==
    LET hundredths == x \div 10
        rest == x % 10
    IN IF rest < 5 THEN hundredths * 10
       ELSE IF rest > 5 THEN (hundredths + 1) * 10
       ELSE IF hundredths % 2 = 0 THEN hundredths * 10
       ELSE (hundredths + 1) * 10

\* The body of the response, jsonify({...}), without its two lists of rows as
\* dictionaries (tickets, recent_orders).
stats ==
    [total_revenue |-> round(total_revenue),
     completed_orders |-> completed_orders,
     pending_orders |-> pending_orders,
     pending_count |-> Len(pending_orders),
     vip_queue |-> vip_queue,
     regular_queue |-> regular_queue]

\* A snapshot that marks the waitlist entries it lists as fulfilled.
get_stats_Fulfilling ==
    Outcome(200, "", tickets, orders,
        [i \in 1..Len(queue) |-> [queue[i] EXCEPT !.status = "fulfilled"]])

\* The handler: it queries, builds the lists above and returns them; no row
\* is added or changed and nothing is committed.
get_stats == Outcome(200, "", tickets, orders, queue)

(***************************************************************************)
(* reset_data and complete_reset                                           *)
(***************************************************************************)
reset_data == Outcome(200, "", DefaultTickets(ResetRegularQuantity), <<>>, <<>>)

complete_reset == Outcome(200, "", DefaultTickets(DefaultRegularQuantity), <<>>, <<>>)

(***************************************************************************)
(* The requests the system serves, one at a time.                          *)
(***************************************************************************)
OrderIds == 1..MaxRows
QueueIds == 1..MaxRows

\* The exploration keeps a restocked quantity within MaxAvail.
WithinAvail(r) ==
    \A t \in TicketIds :
        \/ r.tickets[t].available_quantity <= MaxAvail
        \/ r.tickets[t].available_quantity = tickets[t].available_quantity

CreateOrder ==
    \E u \in Users, items \in ItemLists :
        LET r == create_order(u, items) IN WithinRows(r) /\ Commit(r)

ApproveOrder ==
    \E id \in OrderIds, notes \in NotesInputs :
        LET r == approve_order(id, notes) IN WithinRows(r) /\ Commit(r)

RejectOrder ==
    \E id \in OrderIds, notes \in NotesInputs :
        LET r == reject_order(id, notes) IN WithinRows(r) /\ Commit(r)

CompleteOrder ==
    \E id \in OrderIds :
        LET r == complete_order(id) IN WithinRows(r) /\ Commit(r)

CancelOrder ==
    \E id \in OrderIds, requester \in Users :
        LET r == cancel_order(id, requester) IN WithinRows(r) /\ Commit(r)

\* Restock requests that carry no price key.
Restock ==
    \E t \in TicketIds, q \in QuantityInputs :
        LET r == update_ticket_inventory(t, <<>>, q[1], q[2])
        IN WithinAvail(r) /\ Commit(r)

\* Restock requests that carry a price key.
Reprice ==
    \E t \in TicketIds, price \in PriceInputs, add_quantity \in Opt(AddInputs) :
        LET r == update_ticket_inventory(t, <<price>>, add_quantity, <<>>)
        IN WithinAvail(r) /\ Commit(r)

JoinQueue ==
    \E ticket_type \in RequestTicketIds, quantity \in WaitQuantities :
        LET r == join_queue(ticket_type, quantity) IN WithinRows(r) /\ Commit(r)

FulfillQueue ==
    \E qid \in QueueIds :
        LET r == fulfill_queue(qid) IN WithinRows(r) /\ Commit(r)

GetStats == LET r == get_stats IN WithinRows(r) /\ Commit(r)

ResetData == LET r == reset_data IN WithinRows(r) /\ Commit(r)

CompleteReset == LET r == complete_reset IN WithinRows(r) /\ Commit(r)

Next ==
    \/ CreateOrder
    \/ ApproveOrder
    \/ RejectOrder
    \/ CompleteOrder
    \/ CancelOrder
    \/ Restock
    \/ JoinQueue
    \/ FulfillQueue
    \/ GetStats
    \/ ResetData
    \/ CompleteReset

Spec == Init /\ [][Next]_vars

\* The same system when the administrator changes prices instead of stock.
NextPrice ==
    \/ CreateOrder
    \/ ApproveOrder
    \/ RejectOrder
    \/ CompleteOrder
    \/ CancelOrder
    \/ Reprice
    \/ GetStats

SpecPrice == Init /\ [][NextPrice]_vars

(***************************************************************************)
(* approve_order in two steps: up to the end of its validation loop, and   *)
(* from the decrement loop to the commit.                                  *)
(***************************************************************************)
\* The writes of the decrement loop and the status update, computed on the
\* Ticket objects the session loaded while validating.
approve_order_commit(s) ==
    LET reserved == ReserveApprove(s.order_items, s.loaded) IN
    Outcome(200, "",
        [t \in TicketIds |->
            IF \E k \in 1..Len(s.order_items) : s.order_items[k].ticket_id = t
            THEN [tickets[t] EXCEPT
                    !.available_quantity = reserved[t].available_quantity,
                    !.sold_quantity = reserved[t].sold_quantity]
            ELSE tickets[t]],
        [orders EXCEPT ![s.order_id].status = "approved",
                       ![s.order_id].completed_at = TRUE,
                       ![s.order_id].admin_notes = IF s.notes # <<>> THEN s.notes ELSE @],
        queue)

\* The request loads the order and the tickets of its lines.  Where the
\* handler returns at once (not found, not pending, auto-reject) the request
\* is over; otherwise the session holds what it loaded.
ApproveLoad ==
    \E th \in Threads, id \in OrderIds, notes \in NotesInputs :
        /\ sessions[th] = Idle
        /\ LET r == approve_order(id, notes) IN
           IF r.code = 200
           THEN /\ sessions' = [sessions EXCEPT ![th] =
                        [op |-> "approve",
                         order_id |-> id,
                         notes |-> notes,
                         order_items |-> orders[id].order_items,
                         loaded |-> tickets]]
                /\ UNCHANGED <<tickets, orders, queue>>
           ELSE Commit(r)

ApproveCommit ==
    \E th \in Threads :
        /\ sessions[th].op = "approve"
        /\ LET r == approve_order_commit(sessions[th]) IN
           /\ tickets' = r.tickets
           /\ orders' = r.orders
           /\ queue' = r.queue
        /\ sessions' = [sessions EXCEPT ![th] = Idle]

NextApprove ==
    \/ CreateOrder
    \/ Restock
    \/ ApproveLoad
    \/ ApproveCommit

SpecApprove == Init /\ [][NextApprove]_vars

(***************************************************************************)
(* create_order in three steps: the checks, the commit of the Order row    *)
(* and the commit of its OrderItem rows.                                   *)
(***************************************************************************)
\* The checks pass: the session holds the order it is about to insert.
CreateCheck ==
    \E th \in Threads, u \in Users, items \in ItemLists :
        /\ sessions[th] = Idle
        /\ LET r == create_order(u, items) IN
           /\ r.code = 201
           /\ sessions' = [sessions EXCEPT ![th] =
                    [op |-> "create", order |-> r.orders[Len(r.orders)], order_id |-> 0]]
        /\ UNCHANGED <<tickets, orders, queue>>

\* db.session.add(order); db.session.commit(): the Order row, without lines.
CreateInsertOrder ==
    \E th \in Threads :
        /\ sessions[th].op = "create"
        /\ sessions[th].order_id = 0
        /\ Len(orders) + Len(queue) < MaxRows
        /\ orders' = Append(orders,
                [sessions[th].order EXCEPT !.order_items = <<>>, !.created_at = utcnow])
        /\ sessions' = [sessions EXCEPT ![th].order_id = Len(orders) + 1]
        /\ UNCHANGED <<tickets, queue>>

\* The OrderItem rows of the order and the second commit.
CreateInsertItems ==
    \E th \in Threads :
        /\ sessions[th].op = "create"
        /\ sessions[th].order_id # 0
        /\ orders' = [orders EXCEPT ![sessions[th].order_id].order_items =
                            sessions[th].order.order_items]
        /\ sessions' = [sessions EXCEPT ![th] = Idle]
        /\ UNCHANGED <<tickets, queue>>

NextCreate ==
    \/ CreateCheck
    \/ CreateInsertOrder
    \/ CreateInsertItems
    \/ ApproveOrder
    \/ CompleteOrder
    \/ GetStats

SpecCreate == Init /\ [][NextCreate]_vars


(***************************************************************************)
(* Properties.                                                             *)
(***************************************************************************)
SumOf(tk, t) == tk[t].available_quantity + tk[t].sold_quantity

\* The quantity an order asks of a ticket class, over all its lines.
RECURSIVE LineQuantity(_, _)
LineQuantity(its, t) ==
    IF its = <<>> THEN 0
    ELSE (IF Head(its).ticket_id = t THEN Head(its).quantity ELSE 0)
            + LineQuantity(Tail(its), t)

Pending(id) == id \in 1..Len(orders) /\ orders[id].status = "pending"

\* Some line of the order asks for more than its class has available.
Short(id) ==
    \E k \in 1..Len(orders[id].order_items) :
        tickets[orders[id].order_items[k].ticket_id].available_quantity
            < orders[id].order_items[k].quantity

\* C1. Conservation: in every reachable state, for each ticket class,
\* create, approve, reject, complete, cancel, joining the waitlist and
\* fulfilling a waitlist entry all leave available + sold as it is, whatever
\* their arguments: the sum changes only through a restock or a reset.
Conserved(r) == \A t \in TicketIds : SumOf(r.tickets, t) = SumOf(tickets, t)

C1_Conservation ==
    /\ \A u \in Users, items \in ItemLists : Conserved(create_order(u, items))
    /\ \A id \in OrderIds, notes \in NotesInputs :
          Conserved(approve_order(id, notes)) /\ Conserved(reject_order(id, notes))
    /\ \A id \in OrderIds : Conserved(complete_order(id))
    /\ \A id \in OrderIds, requester \in Users : Conserved(cancel_order(id, requester))
    /\ \A ticket_type \in RequestTicketIds, quantity \in WaitQuantities :
          Conserved(join_queue(ticket_type, quantity))
    /\ \A qid \in QueueIds : Conserved(fulfill_queue(qid))

\* C1 witness: one order has been approved or completed and another one
\* cancelled, after stock was set by hand.
C1_Witness ==
    /\ \E i \in 1..Len(orders) : orders[i].status = "cancelled"
    /\ \E j \in 1..Len(orders) : orders[j].status \in {"approved", "completed"}
    /\ tickets[VIP].available_quantity <= MaxAvail

\* C2. In every reachable state both classes have available >= 0 and sold >= 0.
C2_NonNegative ==
    \A t \in TicketIds :
        tickets[t].available_quantity >= 0 /\ tickets[t].sold_quantity >= 0

\* C2 witness: a class has tickets sold and none left available.
C2_Witness ==
    \E t \in TicketIds :
        tickets[t].available_quantity = 0 /\ tickets[t].sold_quantity > 0

\* C3. At most one active order: for every user, at most one order of that
\* user is pending, approved or completed.
C3_AtMostOneActive ==
    \A u \in Users : Cardinality(ActiveOrdersOf(u)) <= 1

\* C4. Approval atomicity: approving a pending order either moves every
\* line's quantity from available to sold and makes the order approved, or
\* changes no counter and makes the order rejected.
C4_ApprovalAtomic ==
    \A id \in OrderIds, notes \in NotesInputs :
        Pending(id) =>
            LET r == approve_order(id, notes)
                its == orders[id].order_items
            IN \/ /\ r.orders[id].status = "approved"
                  /\ \A t \in TicketIds :
                        /\ r.tickets[t].available_quantity =
                              tickets[t].available_quantity - LineQuantity(its, t)
                        /\ r.tickets[t].sold_quantity =
                              tickets[t].sold_quantity + LineQuantity(its, t)
                        /\ r.tickets[t].price = tickets[t].price
               \/ /\ r.orders[id].status = "rejected"
                  /\ r.tickets = tickets

\* C4 witness: a two-line order was rejected by approve in a state where its
\* first line could have been reserved and its second could not.
C4_Witness ==
    \E i \in 1..Len(orders) :
        LET its == orders[i].order_items IN
        /\ orders[i].status = "rejected"
        /\ orders[i].admin_notes = <<"auto-rejected: insufficient">>
        /\ Len(its) = 2
        /\ tickets[its[1].ticket_id].available_quantity >= its[1].quantity
        /\ tickets[its[2].ticket_id].available_quantity < its[2].quantity
        /\ tickets[its[1].ticket_id].sold_quantity = 0

\* C5. Cancel/refund round trip: where approve accepts a pending order, the
\* refund that cancel then makes for the approved order gives every class
\* its available and sold of before the approval.
C5_RoundTrip ==
    \A id \in OrderIds, notes \in NotesInputs :
        (Pending(id) /\ approve_order(id, notes).code = 200) =>
            LET r == approve_order(id, notes) IN
            /\ r.orders[id].status = "approved"
            /\ r.orders[id].order_items = orders[id].order_items
            /\ r.tickets # tickets
            /\ Release(r.orders[id].order_items, r.tickets) = tickets

\* C5 witness: an order was approved and then cancelled, and stock is what it
\* was at the start.
C5_Witness ==
    /\ \E i \in 1..Len(orders) :
          /\ orders[i].status = "cancelled"
          /\ orders[i].admin_notes = <<"admin", "user cancelled">>
    /\ tickets = DefaultTickets(DefaultRegularQuantity)

\* C6. Approving a pending order of which some line exceeds what is available
\* rejects the order with the insufficient-stock note, reports the shortfall
\* and leaves every class's counters as they were.
C6_AutoReject ==
    \A id \in OrderIds, notes \in NotesInputs :
        (Pending(id) /\ Short(id)) =>
            LET r == approve_order(id, notes) IN
            /\ r.code = 400
            /\ r.error = "insufficient tickets"
            /\ r.orders[id].status = "rejected"
            /\ r.orders[id].admin_notes = <<"auto-rejected: insufficient">>
            /\ r.tickets = tickets

\* C6 witness: the first order took the last ticket of the class (available 0,
\* sold 1) and the second order, for one more, was rejected by approve.
C6_Witness ==
    \E a, b \in 1..Len(orders) :
        /\ orders[a].status = "approved"
        /\ orders[b].status = "rejected"
        /\ orders[b].admin_notes = <<"auto-rejected: insufficient">>
        /\ LineQuantity(orders[a].order_items, VIP) = 1
        /\ LineQuantity(orders[b].order_items, VIP) = 1
        /\ tickets[VIP].available_quantity = 0
        /\ tickets[VIP].sold_quantity = 1

\* C7. An order's status changes only along the lifecycle: pending to
\* approved, rejected or completed, and approved or completed to cancelled.
Lifecycle ==
    {<<"pending", "approved">>, <<"pending", "rejected">>, <<"pending", "completed">>,
     <<"approved", "cancelled">>, <<"completed", "cancelled">>}

C7_Lifecycle ==
    [][\A i \in 1..Len(orders) :
          i <= Len(orders') =>
              \/ orders'[i].status = orders[i].status
              \/ <<orders[i].status, orders'[i].status>> \in Lifecycle]_vars

\* C8. Inventory is reserved at most once per order: completing an order that
\* is already approved moves no ticket from available to sold.
C8_ReserveOnce ==
    \A id \in 1..Len(orders) :
        orders[id].status = "approved" => complete_order(id).tickets = tickets

\* C9. A successful create commits the new order in status pending and
\* leaves available and sold of every ticket class, and every other order,
\* as they were; while an order is pending, rejecting it or trying to cancel
\* it moves no stock either (only approve and complete do).
C9_CreateFrame ==
    /\ \A u \in Users, items \in ItemLists :
          LET r == create_order(u, items) IN
          r.code = 201 =>
              /\ r.tickets = tickets
              /\ Len(r.orders) = Len(orders) + 1
              /\ r.orders[Len(r.orders)].status = "pending"
              /\ r.orders[Len(r.orders)].user_id = u
              /\ SubSeq(r.orders, 1, Len(orders)) = orders
    /\ \A id \in OrderIds :
          Pending(id) =>
              /\ \A notes \in NotesInputs : reject_order(id, notes).tickets = tickets
              /\ \A requester \in Users : cancel_order(id, requester).tickets = tickets

\* C9 witness: an order was created when stock was short of nothing, it is
\* pending and no ticket is sold.
C9_Witness ==
    /\ Len(orders) = 1
    /\ orders[1].status = "pending"
    /\ tickets = DefaultTickets(DefaultRegularQuantity)

\* C10. Price snapshot: a step that changes the price of a ticket class
\* changes no line (its price_at_purchase included) and no total_amount of
\* any order, whatever the order's status.
C10_PriceSnapshot ==
    [][(\E t \in TicketIds : tickets'[t].price # tickets[t].price) =>
            /\ Len(orders') = Len(orders)
            /\ \A i \in 1..Len(orders) :
                  /\ orders'[i].order_items = orders[i].order_items
                  /\ orders'[i].total_amount = orders[i].total_amount]_vars

\* C10 witness: an approved order and a rejected order both hold a line whose
\* price_at_purchase is no longer the price of its class.
C10_Witness ==
    \E i, j \in 1..Len(orders) :
        /\ orders[i].status = "approved"
        /\ orders[j].status = "rejected"
        /\ \A o \in {i, j} :
              \E k \in 1..Len(orders[o].order_items) :
                  LET it == orders[o].order_items[k] IN
                  /\ it.price_at_purchase # tickets[it.ticket_id].price
                  /\ orders[o].total_amount = ItemsTotal(orders[o].order_items)

\* A user's order is in one of the statuses that block a new order.
HasActive(u) ==
    \E i \in 1..Len(orders) :
        orders[i].user_id = u /\ orders[i].status \in {"pending", "approved", "completed"}

HasStatus(u, S) ==
    \E i \in 1..Len(orders) : orders[i].user_id = u /\ orders[i].status \in S

\* The rows of the outcome are the rows of before.
NoChange(r) == r.tickets = tickets /\ r.orders = orders /\ r.queue = queue

\* C11. A create by a user who has an order in status pending, approved or
\* completed is answered 409 (a conflict), whatever it requests; the message
\* is the "already completed" one when the user's blocking order is completed
\* and the "already active" one when it is pending or approved; no order is
\* created and no row changes.
C11_CreateConflict ==
    \A u \in Users, items \in ItemLists :
        HasActive(u) =>
            LET r == create_order(u, items) IN
            /\ r.code = 409
            /\ NoChange(r)
            /\ r.error \in {"already completed", "already active"}
            /\ ~HasStatus(u, {"pending", "approved"}) => r.error = "already completed"
            /\ ~HasStatus(u, {"completed"}) => r.error = "already active"

\* C11 witness: one user is blocked by a completed order and the other by an
\* approved one.
C11_Witness ==
    \E i, j \in 1..Len(orders) :
        /\ orders[i].user_id # orders[j].user_id
        /\ orders[i].status = "completed"
        /\ orders[j].status = "approved"

\* The quantity a request asks of a ticket class, over all its lines.
Requested(items, t) == LineQuantity(items, t)

\* A request of which every line names a ticket class and asks for 1 or more.
WellFormed(items) ==
    \A k \in 1..Len(items) : items[k].ticket_id \in TicketIds /\ items[k].quantity >= 1

\* C12. Aggregation: a create of a well-formed request that succeeds appends
\* an order with exactly one line for each requested class and none for the
\* others, the line's quantity being the sum of the quantities requested for
\* the class; and a create whose summed quantity for some class exceeds the
\* class's available fails and creates no order.
C12_Aggregation ==
    \A u \in Users, items \in ItemLists :
        WellFormed(items) =>
            LET r == create_order(u, items)
                its == r.orders[Len(r.orders)].order_items
            IN
            /\ r.code = 201 =>
                  \A t \in TicketIds :
                      LET ks == {k \in 1..Len(its) : its[k].ticket_id = t} IN
                      /\ Cardinality(ks) = IF Requested(items, t) > 0 THEN 1 ELSE 0
                      /\ \A k \in ks : its[k].quantity = Requested(items, t)
            /\ (\E t \in TicketIds :
                    Requested(items, t) > tickets[t].available_quantity) =>
                  r.code # 201 /\ r.orders = orders

\* C12 witness: an order holds one VIP line of quantity 2, which only the
\* request naming VIP twice can produce.
C12_Witness ==
    \E i \in 1..Len(orders) :
        /\ Len(orders[i].order_items) = 1
        /\ orders[i].order_items[1].ticket_id = VIP
        /\ orders[i].order_items[1].quantity = 2

\* C13. Quantity checks are strict.  A well-formed create by a user with no
\* blocking order succeeds exactly when no class is asked for more than it has
\* available; approving or completing a pending order succeeds exactly when
\* no line asks for more than is available; and a class of which a line asked
\* for exactly what was available is left with available 0.
ExactLeftEmpty(id, r) ==
    \A k \in 1..Len(orders[id].order_items) :
        LET it == orders[id].order_items[k] IN
        tickets[it.ticket_id].available_quantity = it.quantity =>
            r.tickets[it.ticket_id].available_quantity = 0

C14_NotPendingRefused ==
    \A id \in OrderIds, notes \in NotesInputs :
        (id <= Len(orders) /\ orders[id].status # "pending") =>
            \A r \in {approve_order(id, notes), reject_order(id, notes)} :
                /\ r.code = 400
                /\ r.error = "already " \o orders[id].status
                /\ NoChange(r)

\* C14 witness: there is a rejected order and a completed one.
C14_Witness ==
    \E i, j \in 1..Len(orders) :
        orders[i].status = "rejected" /\ orders[j].status = "completed"

\* C15. reject on a pending order answers 200, makes the order rejected and
\* changes nothing else: every class keeps its available and sold, whether
\* or not stock covers the order.
C15_RejectFrame ==
    \A id \in OrderIds, notes \in NotesInputs :
        Pending(id) =>
            LET r == reject_order(id, notes) IN
            /\ r.code = 200
            /\ r.orders[id].status = "rejected"
            /\ r.tickets = tickets
            /\ r.queue = queue
            /\ Len(r.orders) = Len(orders)
            /\ \A i \in 1..Len(orders) : i # id => r.orders[i] = orders[i]

\* C15 witness: the administrator rejected an order that stock covered while
\* tickets of its class were sold to somebody else.
C15_Witness ==
    \E i, j \in 1..Len(orders) :
        /\ orders[i].status = "rejected"
        /\ orders[i].admin_notes = <<"admin">>
        /\ ~Short(i)
        /\ orders[j].status = "approved"
        /\ tickets[VIP].sold_quantity = LineQuantity(orders[j].order_items, VIP)
        /\ tickets[VIP].sold_quantity > 0

\* C16. complete re-validates and reserves exactly like approve: on a pending
\* order the two leave every class with the same counters, and when a line
\* exceeds what is available complete, like approve, makes the order rejected.
C16_CompleteLikeApprove ==
    \A id \in OrderIds, notes \in NotesInputs :
        Pending(id) =>
            /\ complete_order(id).tickets = approve_order(id, notes).tickets
            /\ Short(id) => complete_order(id).orders[id].status = "rejected"

\* C17. cancel by the order's owner on an approved or completed order answers
\* 200, adds each line's quantity to available, takes it from sold (not below
\* 0) and makes the order cancelled; any other cancel (another requester, or
\* an order that is pending, rejected or cancelled) fails and changes no row.
Floor0(n) == IF n < 0 THEN 0 ELSE n

C17_Cancel ==
    \A id \in OrderIds, requester \in Users :
        id <= Len(orders) =>
            LET r == cancel_order(id, requester)
                its == orders[id].order_items
            IN
            IF orders[id].user_id = requester
                   /\ orders[id].status \in {"approved", "completed"}
            THEN /\ r.code = 200
                 /\ r.orders[id].status = "cancelled"
                 /\ \A t \in TicketIds :
                       /\ r.tickets[t].available_quantity =
                             tickets[t].available_quantity + LineQuantity(its, t)
                       /\ r.tickets[t].sold_quantity =
                             Floor0(tickets[t].sold_quantity - LineQuantity(its, t))
            ELSE r.code # 200 /\ NoChange(r)

\* C17 witness: one user's order was cancelled and gave its ticket back while
\* the other user's order stays approved.
C17_Witness ==
    \E i, j \in 1..Len(orders) :
        /\ orders[i].user_id # orders[j].user_id
        /\ orders[i].status = "cancelled"
        /\ orders[i].admin_notes = <<"admin", "user cancelled">>
        /\ orders[j].status = "approved"
        /\ tickets[VIP].sold_quantity = LineQuantity(orders[j].order_items, VIP)

\* C18. A restock whose add_quantity would take available below 0, or whose
\* set_quantity is negative, answers 400 and changes no row: available, sold
\* and the price stay as they were, also when the request carries a price.
C18_RestockRefused ==
    \A t \in TicketIds, price \in Opt(PriceInputs), q \in QuantityInputs :
        (\/ q[1] # <<>> /\ tickets[t].available_quantity + q[1][1] < 0
         \/ q[2] # <<>> /\ q[2][1] < 0) =>
            LET r == update_ticket_inventory(t, price, q[1], q[2]) IN
            r.code = 400 /\ NoChange(r)

\* C18 witness: a class was emptied by hand (nothing available, nothing
\* sold), so that taking one more ticket off is a request to refuse.
C18_Witness ==
    \E t \in TicketIds :
        /\ tickets[t].available_quantity = 0
        /\ tickets[t].sold_quantity = 0
        /\ update_ticket_inventory(t, <<>>, <<-1>>, <<>>).code = 400

\* The queue of a ticket class in the stats snapshot.
ClassQueue(t) == IF t = VIP THEN vip_queue ELSE regular_queue

\* The places of a source (an order, a waitlist entry) in a queue.
Places(q, type, id) == {k \in 1..Len(q) : q[k].type = type /\ q[k].id = id}

\* Order i has an entry in the queue ahead of every entry of order j.
ListedBefore(q, i, j) ==
    /\ Places(q, "order", i) # {}
    /\ Places(q, "order", j) # {}
    /\ \A a \in Places(q, "order", i), b \in Places(q, "order", j) : a < b

HasLine(i, t) == LineQuantity(orders[i].order_items, t) > 0

OnlyClass(i, t) == Pending(i) /\ HasLine(i, t) /\ \A o \in TicketIds \ {t} : ~HasLine(i, o)

Mixed(i) == Pending(i) /\ \A t \in TicketIds : HasLine(i, t)

\* C19 as stated. Tier precedence in the class queues: a pending order for
\* one class only is listed in that class's queue before every pending mixed
\* order, whatever their creation timestamps.
C19_TierPrecedence ==
    \A t \in TicketIds, i, j \in OrderIds :
        (OnlyClass(i, t) /\ Mixed(j)) => ListedBefore(ClassQueue(t), i, j)

\* C19 as amended. In a class queue the creation timestamps decide: a pending
\* order for that class only is listed before a pending mixed order when it
\* was created no later, and after it when it was created later; the tiers
\* (VIP only, then mixed, then Regular only) take precedence over timestamps
\* in the ranked list of pending orders only.
Ranked(i, j) ==
    \E a, b \in 1..Len(pending_orders) :
        a < b /\ pending_orders[a] = i /\ pending_orders[b] = j

C19_TimestampPrecedence ==
    \A t \in TicketIds, i, j \in OrderIds :
        (OnlyClass(i, t) /\ Mixed(j)) =>
            /\ orders[i].created_at <= orders[j].created_at =>
                  ListedBefore(ClassQueue(t), i, j)
            /\ orders[i].created_at > orders[j].created_at =>
                  ListedBefore(ClassQueue(t), j, i)
            /\ IF t = VIP THEN Ranked(i, j) ELSE Ranked(j, i)

\* C19 witness: a mixed order and, created after it, a VIP-only order are
\* both pending, and the VIP queue lists the mixed one first.
C19_Witness ==
    /\ Len(orders) = 2
    /\ Mixed(1)
    /\ OnlyClass(2, VIP)
    /\ Len(vip_queue) = 2
    /\ vip_queue[1].id = 1
    /\ pending_orders = <<2, 1>>

\* C20. Queue membership: the queue of a class holds exactly one entry for
\* every pending order with a line of the class, exactly one for every
\* waiting waitlist entry of the class, and nothing else; an order that is
\* not pending, an order without a line of the class and a waitlist entry
\* that is fulfilled or of the other class have no entry in it.
C20_Membership ==
    \A t \in TicketIds :
        LET q == ClassQueue(t)
            members == {i \in 1..Len(orders) : Pending(i) /\ HasLine(i, t)}
            waiting == {w \in 1..Len(queue) :
                          queue[w].status = "waiting" /\ queue[w].ticket_type = t}
        IN
        /\ \A i \in 1..Len(orders) :
              Cardinality(Places(q, "order", i)) = IF i \in members THEN 1 ELSE 0
        /\ \A w \in 1..Len(queue) :
              Cardinality(Places(q, "queue", w)) = IF w \in waiting THEN 1 ELSE 0
        /\ Len(q) = Cardinality(members) + Cardinality(waiting)

\* C20 witness: a pending mixed order and a waiting VIP waitlist entry: the
\* order is in both queues, the waitlist entry in the VIP queue only.
C20_Witness ==
    /\ Len(orders) = 1
    /\ Mixed(1)
    /\ Len(queue) = 1
    /\ queue[1].status = "waiting"
    /\ queue[1].ticket_type = VIP
    /\ Len(vip_queue) = 2
    /\ Len(regular_queue) = 1

\* C21. The stats snapshot is read-only: in every reachable state get_stats
\* answers 200 and leaves every order, every waitlist entry and every ticket
\* class as it was.
C21_StatsReadOnly == get_stats.code = 200 /\ NoChange(get_stats)

\* C21 witness: a snapshot with something in it: tickets are sold to an
\* approved order and a pending mixed order stands in both class queues.
C21_Witness ==
    /\ \E i \in 1..Len(orders) : orders[i].status = "approved"
    /\ \E t \in TicketIds : tickets[t].sold_quantity > 0
    /\ \E j \in 1..Len(orders) : Mixed(j)
    /\ Len(vip_queue) = 1
    /\ Len(regular_queue) = 1

\* The quantities a waitlist request may carry: none is validated.
AnyQuantities == -1..(MaxAvail + 1)

\* C22. Waitlist operations are advisory.  Joining the waitlist of a class
\* answers 201 and appends one waiting entry with the requested quantity,
\* whatever the quantity and the stock of the class; fulfilling an entry
\* answers 200 and changes that entry's status to fulfilled and nothing else;
\* neither changes a ticket class or an order.
C22_WaitlistAdvisory ==
    /\ \A ticket_type \in TicketIds, quantity \in AnyQuantities :
          LET r == join_queue(ticket_type, quantity) IN
          /\ r.code = 201
          /\ Len(r.queue) = Len(queue) + 1
          /\ SubSeq(r.queue, 1, Len(queue)) = queue
          /\ r.queue[Len(r.queue)].status = "waiting"
          /\ r.queue[Len(r.queue)].ticket_type = ticket_type
          /\ r.queue[Len(r.queue)].requested_quantity = quantity
          /\ r.tickets = tickets
          /\ r.orders = orders
    /\ \A qid \in 1..Len(queue) :
          LET r == fulfill_queue(qid) IN
          /\ r.code = 200
          /\ r.queue = [queue EXCEPT ![qid].status = "fulfilled"]
          /\ r.tickets = tickets
          /\ r.orders = orders

\* C22 witness: an entry was fulfilled and another one is waiting for
\* tickets that stock would cover, and no ticket has moved.
C22_Witness ==
    /\ Len(queue) = 2
    /\ queue[1].status = "fulfilled"
    /\ queue[2].status = "waiting"
    /\ tickets[queue[2].ticket_type].available_quantity >= queue[2].requested_quantity
    /\ tickets = DefaultTickets(DefaultRegularQuantity)

\* C23. In every reachable state the price of each ticket class is 0 or
\* more, whatever restock requests were made, and so is the total_amount of
\* every order.
C23_PriceNonNegative ==
    /\ \A t \in TicketIds : tickets[t].price >= 0
    /\ \A i \in 1..Len(orders) : orders[i].total_amount >= 0

\* quantity * price_at_purchase over the lines of an order.
RECURSIVE Amount(_)
Amount(its) ==
    IF its = <<>> THEN 0
    ELSE Head(its).quantity * Head(its).price_at_purchase + Amount(Tail(its))

\* C24. Every order, in every status and after any approve, reject,
\* complete, cancel or restock (price changes included), has at least one
\* line, at most one line per ticket class, a quantity of 1 or more on every
\* line, and a total_amount equal to the sum of quantity * price_at_purchase
\* over its lines.
C24_OrderLines ==
    \A i \in 1..Len(orders) :
        LET its == orders[i].order_items IN
        /\ its # <<>>
        /\ \A k \in 1..Len(its) : its[k].quantity >= 1 /\ its[k].ticket_id \in TicketIds
        /\ \A k, l \in 1..Len(its) : its[k].ticket_id = its[l].ticket_id => k = l
        /\ orders[i].total_amount = Amount(its)

\* C24 witness: a cancelled order of two lines whose prices at purchase are
\* no longer the prices of the classes.
C24_Witness ==
    \E i \in 1..Len(orders) :
        LET its == orders[i].order_items IN
        /\ orders[i].status = "cancelled"
        /\ Len(its) = 2
        /\ \A k \in 1..Len(its) : its[k].price_at_purchase # tickets[its[k].ticket_id].price

\* The tickets of a class on the lines of the approved and completed orders.
RECURSIVE HeldQuantity(_, _)
HeldQuantity(n, t) ==
    IF n = 0 THEN 0
    ELSE (IF orders[n].status \in {"approved", "completed"}
          THEN LineQuantity(orders[n].order_items, t) ELSE 0)
            + HeldQuantity(n - 1, t)

\* C28. In every reachable state and for each ticket class, sold is the
\* total quantity of the class on the lines of the orders that are approved
\* or completed.
C28_SoldMatchesOrders ==
    \A t \in TicketIds : tickets[t].sold_quantity = HeldQuantity(Len(orders), t)

\* The requests of the validation cases: a line of quantity 0 or -1 beside a
\* real one, and an unknown ticket on a line of quantity 0.
Malformed ==
    ItemLists \cup
        {<<Item(VIP, -1), Item(REGULAR, 1)>>,
         <<Item(VIP, -1), Item(VIP, 2)>>,
         <<Item(UnknownTicketId, 0), Item(VIP, 1)>>,
         <<Item(VIP, 1), Item(UnknownTicketId, 1)>>}

BadLine(item) == item.ticket_id \notin TicketIds \/ item.quantity < 1

\* C29 as stated. A create whose request names an unknown ticket class or
\* holds a line of quantity 0 or less is rejected and changes no row, and so
\* is a create of which no line has quantity 1 or more.
C29_MalformedRejected ==
    \A u \in Users, items \in Malformed :
        LET r == create_order(u, items) IN
        ((\E k \in 1..Len(items) : BadLine(items[k]))
            \/ (\A k \in 1..Len(items) : items[k].quantity < 1)) =>
                r.code # 201 /\ NoChange(r)

\* The lines of quantity 1 or more, which are the ones create_order reads.
Kept(items) == SelectSeq(items, LAMBDA item : item.quantity >= 1)

\* C29 as amended. A create that is rejected changes no row.  It is rejected
\* when a line of quantity 1 or more names an unknown ticket class, when the
\* quantities sum to less than 1, and whenever no line has quantity 1 or
\* more.  A line of quantity 0 or less is otherwise no error: it is skipped,
\* and a user with no blocking order whose remaining lines name known classes
\* within stock gets the order of the remaining lines.
C29_MalformedSkipped ==
    \A u \in Users, items \in Malformed :
        LET r == create_order(u, items)
            kept == Kept(items)
        IN
        /\ r.code # 201 => NoChange(r)
        /\ (\E k \in 1..Len(kept) : kept[k].ticket_id \notin TicketIds) => r.code # 201
        /\ SumQuantity(items) < 1 => r.code # 201
        /\ kept = <<>> => r.code # 201
        /\ (/\ ~HasActive(u)
            /\ SumQuantity(items) >= 1
            /\ WellFormed(kept)
            /\ \A t \in TicketIds : Requested(kept, t) <= tickets[t].available_quantity) =>
                /\ r.code = 201
                /\ \A t \in TicketIds :
                      LineQuantity(r.orders[Len(r.orders)].order_items, t) = Requested(kept, t)

\* C29 witness: an order of one Regular line, which only the request with a
\* VIP line of quantity 0 beside it can produce.
C29_Witness ==
    \E i \in 1..Len(orders) :
        /\ Len(orders[i].order_items) = 1
        /\ orders[i].order_items[1].ticket_id = REGULAR
        /\ orders[i].order_items[1].quantity = 1

\* C30. Each class queue of the stats snapshot is in ascending order of one
\* timestamp, the creation time of an order entry and the join time of a
\* waitlist entry: of two entries with different timestamps the earlier one
\* is listed first, whatever their kinds.
C30_QueueSorted ==
    \A t \in TicketIds :
        LET q == ClassQueue(t) IN
        /\ \A a, b \in 1..Len(q) : a < b => q[a].joined_at <= q[b].joined_at
        /\ \A a \in 1..Len(q) :
              q[a].joined_at = IF q[a].type = "order" THEN orders[q[a].id].created_at
                               ELSE queue[q[a].id].joined_at

\* C30 witness: an order created before a waitlist entry was joined is
\* listed ahead of it, though the merge puts waitlist entries first.
C30_Witness ==
    /\ Len(vip_queue) = 2
    /\ vip_queue[1].type = "order"
    /\ vip_queue[2].type = "queue"

\* C25. Two approve requests for different pending orders of a ticket class
\* do not interleave between the availability check and the decrement: in
\* every reachable state of the threaded server, whatever the interleaving,
\* available is 0 or more and the tickets on the lines of the approved orders
\* are exactly the tickets counted as sold (nothing is reserved beyond what
\* was taken out of stock).
C25_ApproveIsolated ==
    \A t \in TicketIds :
        /\ tickets[t].available_quantity >= 0
        /\ HeldQuantity(Len(orders), t) = tickets[t].sold_quantity

\* C26. Two create requests by the same user do not both pass the check for
\* an order that blocks: whatever the interleaving of checks and inserts, a
\* user whose orders stay active has one order at most.
C26_OneCreateWins ==
    \A u \in Users : Cardinality({i \in 1..Len(orders) : orders[i].user_id = u}) <= 1

\* C27. An order is visible to other requests only with all its lines: no
\* order is approved or completed while its lines are not stored, and the
\* tickets on the lines of the approved and completed orders have all been
\* taken out of stock.
C27_VisibleWithLines ==
    /\ \A i \in 1..Len(orders) :
          orders[i].status \in {"approved", "completed"} => orders[i].order_items # <<>>
    /\ \A t \in TicketIds : HeldQuantity(Len(orders), t) <= tickets[t].sold_quantity

\* The lines of an order that are of a ticket class.
ClassLines(i, t) ==
    {k \in 1..Len(orders[i].order_items) : orders[i].order_items[k].ticket_id = t}

\* quantity * price_at_purchase over a set of lines of an order.
RECURSIVE Subtotal(_, _)
Subtotal(i, K) ==
    IF K = {} THEN 0
    ELSE LET k == CHOOSE x \in K : TRUE
         IN orders[i].order_items[k].quantity * orders[i].order_items[k].price_at_purchase
                + Subtotal(i, K \ {k})

\* C31. Each order entry of a class queue reports the quantity the order
\* asks of that class and the subtotal, quantity * price_at_purchase, of the
\* lines of that class only, whatever the class costs now; and its is_mixed
\* flag is true exactly when the order also has a line of the other class.
C31_EntryFields ==
    \A t \in TicketIds :
        LET q == ClassQueue(t) IN
        \A a \in 1..Len(q) :
            q[a].type = "order" =>
                /\ q[a].requested_quantity = LineQuantity(orders[q[a].id].order_items, t)
                /\ q[a].item_total = Subtotal(q[a].id, ClassLines(q[a].id, t))
                /\ q[a].is_mixed <=> \E o \in TicketIds \ {t} : ClassLines(q[a].id, o) # {}

\* C31 witness: a pending order of both classes and a pending order of one
\* class, both bought at prices that are no longer the prices of the
\* classes: the first is flagged mixed and reports less than its total, the
\* second is not flagged and reports its total.
C31_Witness ==
    \E a, b \in 1..Len(vip_queue) :
        /\ vip_queue[a].type = "order"
        /\ vip_queue[a].is_mixed
        /\ vip_queue[a].item_total # vip_queue[a].order_total
        /\ vip_queue[a].item_total # vip_queue[a].requested_quantity * tickets[VIP].price
        /\ vip_queue[b].type = "order"
        /\ ~vip_queue[b].is_mixed
        /\ vip_queue[b].item_total = vip_queue[b].order_total
        /\ vip_queue[b].item_total # vip_queue[b].requested_quantity * tickets[VIP].price

\* The Ticket rows the system creates at initialization.
InitialTickets == DefaultTickets(DefaultRegularQuantity)

\* C32. Every step of either reset operation, reset_data or complete_reset,
\* from any reachable state leaves no order and no waitlist entry, and
\* leaves both ticket classes with the price, the available quantity and
\* sold = 0 that the system creates at initialization, the same for both
\* resets.
C32_ResetDefaults ==
    [][(ResetData \/ CompleteReset) =>
            /\ orders' = <<>>
            /\ queue' = <<>>
            /\ tickets' = InitialTickets]_vars

\* The orders whose total counts as revenue.
Earning(os) == {i \in 1..Len(os) : os[i].status \in {"approved", "completed"}}

\* The sum of total_amount over the approved and completed orders of a table.
RECURSIVE RevenueOf(_)
RevenueOf(os) ==
    IF os = <<>> THEN 0
    ELSE RevenueOf(SubSeq(os, 1, Len(os) - 1))
            + (IF Len(os) \in Earning(os) THEN os[Len(os)].total_amount ELSE 0)

\* What approving, cancelling and rejecting an order do to the revenue.
RevenueMoves ==
    /\ \A id \in OrderIds, notes \in NotesInputs :
          LET r == approve_order(id, notes) IN
          (Pending(id) /\ r.code = 200) =>
              /\ r.orders[id].status = "approved"
              /\ RevenueOf(r.orders) = RevenueOf(orders) + orders[id].total_amount
    /\ \A id \in OrderIds, requester \in Users :
          LET r == cancel_order(id, requester) IN
          (id <= Len(orders) /\ r.code = 200) =>
              /\ r.orders[id].status = "cancelled"
              /\ RevenueOf(r.orders) = RevenueOf(orders) - orders[id].total_amount
    /\ \A id \in OrderIds, notes \in NotesInputs :
          LET r == reject_order(id, notes) IN
          (id <= Len(orders) /\ r.code = 200) =>
              /\ r.orders[id].status = "rejected"
              /\ RevenueOf(r.orders) = RevenueOf(orders)

\* C33 as stated. The total revenue of the stats snapshot equals the sum of
\* total_amount over exactly the approved and completed orders, and its
\* completed count is the number of those orders; approving an order adds
\* its total, cancelling it removes it again, and pending, rejected and
\* cancelled orders contribute nothing.
C33_Revenue ==
    /\ stats.total_revenue = RevenueOf(orders)
    /\ stats.completed_orders = Cardinality(Earning(orders))
    /\ RevenueMoves

\* C33 as amended. The total revenue of the stats snapshot is the sum of
\* total_amount over exactly the approved and completed orders rounded to
\* two decimals: a whole number of hundredths, the nearest to the sum, which
\* it equals only when the sum has no fraction of a hundredth.  The completed
\* count is the number of those orders; approving an order adds its total to
\* the sum, cancelling it removes it again, and pending, rejected and
\* cancelled orders contribute nothing.
C33_RevenueRounded ==
    /\ stats.total_revenue % 10 = 0
    /\ 2 * (stats.total_revenue - RevenueOf(orders)) \in -10..10
    /\ RevenueOf(orders) % 10 = 0 => stats.total_revenue = RevenueOf(orders)
    /\ stats.completed_orders = Cardinality(Earning(orders))
    /\ RevenueMoves

\* C33 witness: of two orders one was cancelled and one is approved at a
\* total with a fraction of a hundredth: the snapshot counts one order and
\* reports its total without the fraction.
C33_Witness ==
    /\ Len(orders) = 2
    /\ \E i, j \in 1..Len(orders) :
          /\ orders[i].status = "approved"
          /\ orders[i].total_amount % 10 # 0
          /\ orders[j].status = "cancelled"
          /\ orders[j].total_amount > 0
          /\ stats.total_revenue = orders[i].total_amount - (orders[i].total_amount % 10)
    /\ stats.total_revenue # RevenueOf(orders)
    /\ stats.completed_orders = 1

=============================================================================
